---- MODULE Spec2Model ----
(***************************************************************************)
(* sort-const: const_quicksort_adv and const_shellsort_adv (src/src/lib.rs) *)
(* as a state machine.  One action per loop iteration of the two macros.    *)
(*                                                                          *)
(* The backing buffer `arr` is a 1-based TLA+ sequence; a mutable slice     *)
(* (&mut [T]) is a view [off, len] into it, with a 0-based offset, so that  *)
(* element k of a view v is arr[v.off + k + 1].                             *)
(***************************************************************************)
EXTENDS Integers, Sequences, FiniteSets, Bags, TLC

VARIABLES
    arr,        \* the caller's buffer
    arr0,       \* the buffer as it was when the macro was invoked
    less,       \* the comparator: cmp!(a, b) = less[a, b]
    engine,     \* "quick" (const_quicksort_adv) or "shell" (const_shellsort_adv)
    max_depth,  \* $depth: capacity of the ArrayVec of sub-slices
    GAPS,       \* $seq: the gap table
    data,       \* $data as a mutable slice: the view that is to be sorted
    pc,         \* position in the macro body
    slices,     \* quicksort: the ArrayVec<&mut [_], $depth> work-stack
    sub,        \* quicksort: the sub-slice popped by `while let Some(data)`
    left,       \* quicksort: partition scan index
    right,      \* quicksort: partition scan index
    gaps,       \* shellsort: the ArrayVec<usize, GAPS_LEN> of active gaps
    gap,        \* shellsort: the gap popped last (0: none yet)
    i,          \* shellsort: outer index of the gapped insertion sort
    j,          \* shellsort: shift index
    temp        \* shellsort: the element held aside (0: nothing held)

vars == <<arr, arr0, less, engine, max_depth, GAPS, data, pc, slices, sub,
          left, right, gaps, gap, i, j, temp>>

(***************************************************************************)
(* Bounds of the model                                                      *)
(***************************************************************************)
MaxLen == 5      \* Spec: longest buffer, strict-weak-order comparators
MaxLenAny == 7   \* SpecAny: longest buffer, arbitrary comparators
MaxLenWeak == 4  \* SpecAny: longest buffer, non-strict orders on Elem
MaxLenLive == 5  \* FairSpec: longest buffer
MaxBody == 3     \* SpecSlice: longest sub-slice handed to the macro
MaxPad == 1      \* SpecSlice: most elements before / after the sub-slice
MaxLenGaps == 4  \* SpecGaps: longest buffer

\* The element values of the crate's own tests ([3, 2, 1], Foo(1), Foo(2), ...).
Elem == {1, 2, 3}
\* The elements on which every predicate, consistent or not, is tried.
AnyElem == {1, 2}

DefaultDepth == 1024

\* The gap table.  The entries after the 26th exceed 2^31 and are left out:
\* the selection loop stops at the first entry that is not < arr.len().
A366726 == <<1, 4, 9, 20, 45, 102, 230, 516, 1158, 2599, 5831, 13082, 29351,
             65853, 147748, 331490, 743735, 1668650, 3743800, 8399623,
             18845471, 42281871, 94863989, 212837706, 477524607, 1071378536>>

NoView == [off |-> 0, len |-> 0]

(***************************************************************************)
(* Helpers: slices                                                          *)
(***************************************************************************)
\* <[T]>::swap(p, q) on the positions p, q (1-based) of the buffer
Swap(a, p, q) == [a EXCEPT ![p] = a[q], ![q] = a[p]]

\* cmp!(a, b)
cmp(a, b) == less[a, b]

\* bug: a push onto a full ArrayVec is dropped without a panic
ExpectPushDrop(v, cap, element) ==
    IF Len(v) < cap THEN [ok |-> TRUE, v |-> Append(v, element)]
    ELSE [ok |-> TRUE, v |-> v]

\* ArrayVec::try_push + the panic of expect_push: ok = FALSE is the panic
ExpectPush(v, cap, element) ==
    IF Len(v) < cap THEN [ok |-> TRUE, v |-> Append(v, element)]
    ELSE [ok |-> FALSE, v |-> v]

\* the expect_push calls of one match arm, in order, stopping at the first panic
RECURSIVE PushAll(_, _, _)
PushAll(v, cap, views) ==
    IF views = <<>> THEN [ok |-> TRUE, v |-> v]
    ELSE LET r == ExpectPush(v, cap, Head(views))
         IN IF r.ok THEN PushAll(r.v, cap, Tail(views)) ELSE r

(***************************************************************************)
(* const_quicksort_adv                                                      *)
(***************************************************************************)
\* bug: the pair is swapped when it is in order
SortPairInverted(a, v) ==
    IF cmp(a[v.off + 1], a[v.off + 2]) THEN Swap(a, v.off + 1, v.off + 2) ELSE a

\* the `2 =>` arm: if !cmp!(data[0], data[1]) { data.swap(0, 1) }
SortPair(a, v) ==
    IF ~cmp(a[v.off + 1], a[v.off + 2]) THEN Swap(a, v.off + 1, v.off + 2) ELSE a

\* bug: right is decremented with saturation and the `break` at right == 0 is lost
ScanStepStuck(a, v, l, r) ==
    LET pivot == a[v.off + 1]
        rest(k) == a[v.off + k + 2]
        dec == IF r = 0 THEN 0 ELSE r - 1
    IN IF cmp(rest(l), pivot)
       THEN [arr |-> a, left |-> l + 1, right |-> r, brk |-> FALSE]
       ELSE IF ~cmp(rest(r), pivot)
       THEN [arr |-> a, left |-> l, right |-> dec, brk |-> FALSE]
       ELSE [arr |-> Swap(a, v.off + l + 2, v.off + r + 2), left |-> l + 1,
             right |-> dec, brk |-> FALSE]

\* one iteration of `while left <= right` over rest = data[1..], pivot = data[0];
\* brk is the `break` taken when right == 0
ScanStep(a, v, l, r) ==
    LET pivot == a[v.off + 1]
        rest(k) == a[v.off + k + 2]
    IN IF cmp(rest(l), pivot)
       THEN [arr |-> a, left |-> l + 1, right |-> r, brk |-> FALSE]
       ELSE IF ~cmp(rest(r), pivot)
       THEN IF r = 0
            THEN [arr |-> a, left |-> l, right |-> r, brk |-> TRUE]
            ELSE [arr |-> a, left |-> l, right |-> r - 1, brk |-> FALSE]
       ELSE LET b == Swap(a, v.off + l + 2, v.off + r + 2)
            IN IF r = 0
               THEN [arr |-> b, left |-> l + 1, right |-> r, brk |-> TRUE]
               ELSE [arr |-> b, left |-> l + 1, right |-> r - 1, brk |-> FALSE]

\* bug: the swap indexes the buffer, not the sub-slice
PivotSwapAbs(a, v, l) == Swap(a, 1, l + 1)

\* data.swap(0, left)
PivotSwap(a, v, l) == Swap(a, v.off + 1, v.off + l + 1)

\* bug: the smaller sub-partition is pushed first, the larger one processed first
SubProblemsSmallFirst(v, l) ==
    LET lv == [off |-> v.off, len |-> l]
        rlen == v.len - l
    IN IF rlen = 0
       THEN <<lv>>
       ELSE LET rv == [off |-> v.off + l + 1, len |-> rlen - 1]
            IN IF lv.len >= rv.len THEN <<rv, lv>> ELSE <<lv, rv>>

\* bug: the popped slice itself is pushed in place of its left part
SubProblemsWholeLeft(v, l) ==
    LET rlen == v.len - l
    IN IF rlen = 0
       THEN <<v>>
       ELSE LET rv == [off |-> v.off + l + 1, len |-> rlen - 1]
            IN IF l >= rv.len THEN <<v, rv>> ELSE <<rv, v>>

\* data.split_at_mut(left), right.split_first_mut() and the three match arms:
\* the views handed to expect_push, in the order they are pushed
SubProblems(v, l) ==
    LET lv == [off |-> v.off, len |-> l]
        rlen == v.len - l                          \* right, the pivot included
    IN IF rlen = 0
       THEN <<lv>>                                 \* None
       ELSE LET rv == [off |-> v.off + l + 1, len |-> rlen - 1]
            IN IF lv.len >= rv.len THEN <<lv, rv>> \* Some, left.len() >= right.len()
               ELSE <<rv, lv>>                     \* Some

\* let mut slices = ArrayVec::new(); expect_push(&mut slices, data.as_mut_slice())
QStart ==
    /\ pc = "start"
    /\ engine = "quick"
    /\ LET r == ExpectPush(<<>>, max_depth, data)
       IN /\ slices' = r.v
          /\ pc' = IF r.ok THEN "q_loop" ELSE "panic"
    /\ UNCHANGED <<arr, arr0, less, engine, max_depth, GAPS, data, sub, left,
                   right, gaps, gap, i, j, temp>>

\* slices.pop() is None: the loop ends, the macro returns data.0
QDone ==
    /\ pc = "q_loop"
    /\ slices = <<>>
    /\ pc' = "done"
    /\ UNCHANGED <<arr, arr0, less, engine, max_depth, GAPS, data, slices, sub,
                   left, right, gaps, gap, i, j, temp>>

\* pop a sub-slice of length 0 or 1: continue
QPopSmall ==
    /\ pc = "q_loop"
    /\ slices # <<>>
    /\ slices[Len(slices)].len <= 1
    /\ slices' = SubSeq(slices, 1, Len(slices) - 1)
    /\ UNCHANGED <<arr, arr0, less, engine, max_depth, GAPS, data, pc, sub,
                   left, right, gaps, gap, i, j, temp>>

\* pop a sub-slice of length 2: compare, swap, continue
QPopPair ==
    /\ pc = "q_loop"
    /\ slices # <<>>
    /\ slices[Len(slices)].len = 2
    /\ slices' = SubSeq(slices, 1, Len(slices) - 1)
    /\ arr' = SortPair(arr, slices[Len(slices)])
    /\ UNCHANGED <<arr0, less, engine, max_depth, GAPS, data, pc, sub, left,
                   right, gaps, gap, i, j, temp>>

\* pop a sub-slice of length >= 3: split_first_mut, left = 0, right = rest.len() - 1
QPopSplit ==
    /\ pc = "q_loop"
    /\ slices # <<>>
    /\ slices[Len(slices)].len >= 3
    /\ slices' = SubSeq(slices, 1, Len(slices) - 1)
    /\ sub' = slices[Len(slices)]
    /\ left' = 0
    /\ right' = slices[Len(slices)].len - 2
    /\ pc' = "q_scan"
    /\ UNCHANGED <<arr, arr0, less, engine, max_depth, GAPS, data, gaps, gap,
                   i, j, temp>>

\* one iteration of the partition scan, then the test of `left <= right`
QScan ==
    /\ pc = "q_scan"
    /\ LET s == ScanStep(arr, sub, left, right)
       IN /\ arr' = s.arr
          /\ left' = s.left
          /\ right' = s.right
          /\ pc' = IF s.brk \/ s.left > s.right THEN "q_push" ELSE "q_scan"
    /\ UNCHANGED <<arr0, less, engine, max_depth, GAPS, data, slices, sub, gaps,
                   gap, i, j, temp>>

\* data.swap(0, left); split; push the sub-partitions
QPush ==
    /\ pc = "q_push"
    /\ arr' = PivotSwap(arr, sub, left)
    /\ LET r == PushAll(slices, max_depth, SubProblems(sub, left))
       IN /\ slices' = r.v
          /\ pc' = IF r.ok THEN "q_loop" ELSE "panic"
    /\ sub' = NoView
    /\ left' = 0
    /\ right' = 0
    /\ UNCHANGED <<arr0, less, engine, max_depth, GAPS, data, gaps, gap, i, j,
                   temp>>

(***************************************************************************)
(* const_shellsort_adv                                                      *)
(***************************************************************************)
\* while i < GAPS_LEN && GAPS[i] < arr.len() { expect_push(&mut gaps, GAPS[i]) }
\* (k is the 1-based index of the entry looked at)
RECURSIVE SelectGaps(_, _, _, _)
SelectGaps(table, n, k, acc) ==
    IF k <= Len(table) /\ table[k] < n
    THEN SelectGaps(table, n, k + 1, Append(acc, table[k]))
    ELSE acc

\* let arr = data.as_mut_slice(); let mut gaps = { ... }
SStart ==
    /\ pc = "start"
    /\ engine = "shell"
    /\ gaps' = SelectGaps(GAPS, data.len, 1, <<>>)
    /\ pc' = "s_loop"
    /\ UNCHANGED <<arr, arr0, less, engine, max_depth, GAPS, data, slices, sub,
                   left, right, gap, i, j, temp>>

\* gaps.pop() is None: the macro returns data.0
SDone ==
    /\ pc = "s_loop"
    /\ gaps = <<>>
    /\ pc' = "done"
    /\ UNCHANGED <<arr, arr0, less, engine, max_depth, GAPS, data, slices, sub,
                   left, right, gaps, gap, i, j, temp>>

\* while let Some(gap) = gaps.pop() { let mut i = gap; ...
SPopGap ==
    /\ pc = "s_loop"
    /\ gaps # <<>>
    /\ gap' = gaps[Len(gaps)]
    /\ gaps' = SubSeq(gaps, 1, Len(gaps) - 1)
    /\ i' = gaps[Len(gaps)]
    /\ pc' = "s_i"
    /\ UNCHANGED <<arr, arr0, less, engine, max_depth, GAPS, data, slices, sub,
                   left, right, j, temp>>

\* while i < arr.len() { let temp = ptr::read(&arr[i]); let mut j = i; ...
SHold ==
    /\ pc = "s_i"
    /\ i < data.len
    /\ temp' = arr[data.off + i + 1]
    /\ j' = i
    /\ pc' = "s_j"
    /\ UNCHANGED <<arr, arr0, less, engine, max_depth, GAPS, data, slices, sub,
                   left, right, gaps, gap, i>>

\* i == arr.len(): this gap's pass is over
SPassEnd ==
    /\ pc = "s_i"
    /\ i >= data.len
    /\ pc' = "s_loop"
    /\ i' = 0
    /\ UNCHANGED <<arr, arr0, less, engine, max_depth, GAPS, data, slices, sub,
                   left, right, gaps, gap, j, temp>>

\* bug: an element is shifted unless it is less than the held one
ShiftCondNotGreater(held, a, v, g, jj) ==
    jj >= g /\ ~cmp(a[v.off + jj - g + 1], held)

\* j >= gap && cmp!(temp, arr[j - gap]), arr being the view v of the buffer a
ShiftCond(held, a, v, g, jj) == jj >= g /\ cmp(held, a[v.off + jj - g + 1])

\* while j >= gap && cmp!(temp, arr[j - gap]) { ptr::copy(&arr[j - gap], &mut arr[j], 1); j -= gap }
SShift ==
    /\ pc = "s_j"
    /\ ShiftCond(temp, arr, data, gap, j)
    /\ arr' = [arr EXCEPT ![data.off + j + 1] = arr[data.off + j - gap + 1]]
    /\ j' = j - gap
    /\ UNCHANGED <<arr0, less, engine, max_depth, GAPS, data, pc, slices, sub,
                   left, right, gaps, gap, i, temp>>

\* bug: the held element is not written back, the slot keeps its content
PlacedStale(held, a, p) == a[p]

\* the element that ptr::write(&mut arr[j], temp) stores
Placed(held, a, p) == held

\* ptr::write(&mut arr[j], temp); i += 1
SPlace ==
    /\ pc = "s_j"
    /\ ~ShiftCond(temp, arr, data, gap, j)
    /\ arr' = [arr EXCEPT ![data.off + j + 1] = Placed(temp, arr, data.off + j + 1)]
    /\ i' = i + 1
    /\ j' = 0
    /\ temp' = 0
    /\ pc' = "s_i"
    /\ UNCHANGED <<arr0, less, engine, max_depth, GAPS, data, slices, sub, left,
                   right, gaps, gap>>

Next ==
    \/ QStart \/ QDone \/ QPopSmall \/ QPopPair \/ QPopSplit \/ QScan \/ QPush
    \/ SStart \/ SDone \/ SPopGap \/ SHold \/ SPassEnd \/ SShift \/ SPlace

(***************************************************************************)
(* Initial states: one invocation of a macro                                *)
(***************************************************************************)
SeqsUpTo(S, n) == UNION {[1..m -> S] : m \in 0..n}

\* less is a strict weak ordering on S: irreflexive, transitive, and with a
\* transitive incomparability
StrictWeak(p, S) ==
    /\ \A a \in S : ~p[a, a]
    /\ \A a, b, c \in S : p[a, b] /\ p[b, c] => p[a, c]
    /\ \A a, b, c \in S :
          (~p[a, b] /\ ~p[b, a] /\ ~p[b, c] /\ ~p[c, b]) => (~p[a, c] /\ ~p[c, a])

StrictWeakOrders == {p \in [Elem \X Elem -> BOOLEAN] : StrictWeak(p, Elem)}

\* every predicate on AnyElem, consistent or not
AnyPreds == [AnyElem \X AnyElem -> BOOLEAN]

\* the comparators a <= b on Elem: what |a, b| !(b < a) gives for a strict weak
\* ordering <; they are reflexive, hence no strict weak orderings
NonStrictOrders ==
    {[q \in Elem \X Elem |-> ~p[q[2], q[1]]] : p \in StrictWeakOrders}

\* the inputs of the crate's tests, doc-tests and examples/simple.rs, with the
\* default comparator a < b and the comparator a > b
ExampleElem == 0..9
Lt == [p \in ExampleElem \X ExampleElem |-> p[1] < p[2]]
Gt == [p \in ExampleElem \X ExampleElem |-> p[1] > p[2]]
Examples == {<<3, 1, 2>>, <<3, 2, 1>>, <<1, 2, 4, 3>>,
             <<1, 2, 3, 6, 5, 4, 7, 8, 9, 0>>}

\* gap tables a caller may hand to const_shellsort_adv!(@$seq, ...)
MalformedTables == {<<>>, <<2>>, <<2, 3>>, <<3, 1>>, <<1, 3, 2>>}

\* Wrapper($data).as_mut_slice(): the array itself, or a sub-slice of it
InitWith(Bodies, Pres, Posts, Preds, Depths, Tables) ==
    \E body \in Bodies, pre \in Pres, post \in Posts, p \in Preds :
        /\ arr = pre \o body \o post
        /\ arr0 = arr
        /\ data = [off |-> Len(pre), len |-> Len(body)]
        /\ less = p
        /\ \/ engine = "quick" /\ max_depth \in Depths /\ GAPS = A366726
           \/ engine = "shell" /\ max_depth = DefaultDepth /\ GAPS \in Tables
        /\ pc = "start"
        /\ slices = <<>>
        /\ sub = NoView
        /\ left = 0
        /\ right = 0
        /\ gaps = <<>>
        /\ gap = 0
        /\ i = 0
        /\ j = 0
        /\ temp = 0

\* whole arrays, valid comparators, default capacity and default gap table
Init ==
    \/ InitWith(SeqsUpTo(Elem, MaxLen), {<<>>}, {<<>>}, StrictWeakOrders,
                {DefaultDepth}, {A366726})
    \/ InitWith(Examples, {<<>>}, {<<>>}, {Lt, Gt}, {DefaultDepth}, {A366726})

\* whole arrays, arbitrary comparators, small and default capacities
InitAny ==
    \/ InitWith(SeqsUpTo(AnyElem, MaxLenAny), {<<>>}, {<<>>}, AnyPreds,
                {1, 2, DefaultDepth}, {A366726})
    \/ InitWith(SeqsUpTo(Elem, MaxLenWeak), {<<>>}, {<<>>},
                StrictWeakOrders \cup NonStrictOrders,
                {1, 2, DefaultDepth}, {A366726})

InitLive ==
    \/ InitWith(SeqsUpTo(AnyElem, MaxLenLive), {<<>>}, {<<>>}, AnyPreds,
                {1, 2, DefaultDepth}, {A366726})
    \/ InitWith(SeqsUpTo(Elem, MaxLenWeak), {<<>>}, {<<>>}, NonStrictOrders,
                {1, 2, DefaultDepth}, {A366726})

\* a mutable sub-slice of a larger array
InitSlice ==
    \/ InitWith(SeqsUpTo(Elem, MaxBody), SeqsUpTo(AnyElem, MaxPad),
                SeqsUpTo(AnyElem, MaxPad), StrictWeakOrders, {DefaultDepth}, {A366726})
    \/ InitWith({<<1, 2, 4>>}, {<<>>}, {<<3>>}, {Lt, Gt}, {DefaultDepth}, {A366726})

\* caller-supplied gap tables
InitGaps ==
    InitWith(SeqsUpTo(Elem, MaxLenGaps), {<<>>}, {<<>>}, StrictWeakOrders,
             {DefaultDepth}, MalformedTables \cup {A366726})

Spec == Init /\ [][Next]_vars
SpecAny == InitAny /\ [][Next]_vars
SpecSlice == InitSlice /\ [][Next]_vars
SpecGaps == InitGaps /\ [][Next]_vars
\* the macros are straight-line code: a step that can be taken is taken
FairSpec == InitLive /\ [][Next]_vars /\ WF_vars(Next)

(***************************************************************************)
(* Properties                                                               *)
(***************************************************************************)
\* the elements of the slice handed to the macro, in order
Body(a) == [k \in 1..data.len |-> a[data.off + k]]

\* no element is less than its predecessor
Sorted(s) == \A k \in 1..(Len(s) - 1) : ~less[s[k + 1], s[k]]

BagOf(s) == [e \in {s[k] : k \in DOMAIN s} |-> Cardinality({k \in DOMAIN s : s[k] = e})]

Equivalent(a, b) == ~less[a, b] /\ ~less[b, a]

DefaultCall == max_depth = DefaultDepth /\ GAPS = A366726

\* smallest k with 2^k >= n
RECURSIVE CeilLog2From(_, _)
CeilLog2From(n, k) == IF 2^k >= n THEN k ELSE CeilLog2From(n, k + 1)
CeilLog2(n) == CeilLog2From(n, 0)

\* largest k with 2^k <= n, for n >= 1
FloorLog2(n) == IF 2^CeilLog2(n) = n THEN CeilLog2(n) ELSE CeilLog2(n) - 1

\* C1: with a strict weak ordering, default capacity and default gap table, when
\* either macro returns no element of the result is less than its predecessor;
\* [3,1,2] with a < b gives [1,2,3] and [1,2,4,3] with a > b gives [4,3,2,1].
C1_SortedOnReturn ==
    (pc = "done" /\ DefaultCall) =>
        /\ Sorted(Body(arr))
        /\ (arr0 = <<3, 1, 2>> /\ less = Lt) => arr = <<1, 2, 3>>
        /\ (arr0 = <<1, 2, 4, 3>> /\ less = Gt) => arr = <<4, 3, 2, 1>>

C1_Witness ==
    /\ pc = "done"
    /\ engine = "quick"
    /\ arr0 = <<1, 2, 4, 3>>
    /\ less = Gt
    /\ arr = <<4, 3, 2, 1>>

\* C2: for every input and every predicate, when a macro returns the buffer
\* holds the same multiset of elements as the input.
C2_PermutationOnReturn == pc = "done" => BagOf(arr) = BagOf(arr0)

C2_Witness ==
    /\ pc = "done"
    /\ engine = "shell"
    /\ Len(arr) >= 5
    /\ arr # arr0
    /\ less \in AnyPreds /\ ~StrictWeak(less, AnyElem)

\* C3: for a sequence of length N >= 1 and any predicate, the work-stack of
\* const_quicksort never holds more than ceil(log2(N)) + 1 sub-problems; more
\* tightly, never more than floor(log2(N + 1)) of them once N >= 3 and never
\* more than one below that (for N = 3625 that is 11, within the 12 slots of
\* examples/large-quick.rs).
C3_DepthBound ==
    (engine = "quick" /\ data.len >= 1) =>
        /\ Len(slices) <= CeilLog2(data.len) + 1
        /\ Len(slices) <= (IF data.len < 3 THEN 1 ELSE FloorLog2(data.len + 1))

C3_Witness ==
    /\ engine = "quick"
    /\ data.len = 7
    /\ Len(slices) = 3
    /\ less \in AnyPreds /\ ~StrictWeak(less, AnyElem)

\* C4: a push that would take the work-stack beyond max_depth ends in the panic
\* and every other push is stored (none is dropped); with max_depth = 1 no
\* sequence of length > 4 makes const_quicksort return.
C4_PushOrPanic ==
    [][/\ pc = "q_push" =>
            LET views == SubProblems(sub, left)
            IN IF Len(slices) + Len(views) > max_depth
               THEN pc' = "panic"
               ELSE pc' = "q_loop" /\ slices' = slices \o views
       /\ (pc = "start" /\ engine = "quick") =>
            IF max_depth < 1 THEN pc' = "panic"
            ELSE pc' = "q_loop" /\ slices' = <<data>>
       /\ (engine = "quick" /\ max_depth = 1 /\ data.len > 4) => pc' # "done"]_vars

C4_Witness ==
    /\ pc = "panic"
    /\ max_depth = 1
    /\ data.len = 5

\* C5 as stated: sorting an already sorted input changes no position, also
\* when the input holds distinct elements that are equivalent under less.
C5_SortedInputUnchanged ==
    (pc = "done" /\ DefaultCall /\ Sorted(Body(arr0))) => arr = arr0

\* C5 as amended: on an input sorted per a strict weak ordering
\* const_shellsort changes no position, and const_quicksort leaves at every
\* position the element that was there or one equivalent to it under less.
C5_SortedInputEquivalent ==
    (pc = "done" /\ DefaultCall /\ Sorted(Body(arr0))) =>
        /\ engine = "shell" => arr = arr0
        /\ \A k \in DOMAIN arr : arr[k] = arr0[k] \/ Equivalent(arr[k], arr0[k])

C5_Witness ==
    /\ pc = "done"
    /\ engine = "shell"
    /\ Len(arr0) = 5
    /\ Sorted(Body(arr0))
    /\ \E k \in 1..4 : arr0[k] # arr0[k + 1] /\ Equivalent(arr0[k], arr0[k + 1])

\* C6: for every input and every predicate both macros terminate:
\* const_quicksort with an empty work-stack or in the capacity panic,
\* const_shellsort with every selected gap consumed, the last pass being the
\* pass of gap 1 (there is no pass when the length is below 2).
C6_Terminates ==
    <>(\/ engine = "quick" /\ pc = "done" /\ slices = <<>>
       \/ engine = "quick" /\ pc = "panic"
       \/ /\ engine = "shell"
          /\ pc = "done"
          /\ gaps = <<>>
          /\ gap = (IF data.len >= 2 THEN 1 ELSE 0))

C6_Witness ==
    /\ engine = "quick"
    /\ pc = "done"
    /\ slices = <<>>
    /\ data.len = 5
    /\ less \in AnyPreds /\ ~StrictWeak(less, AnyElem)

\* C7: applied to a sub-slice of a larger array, neither macro ever writes a
\* position outside the sub-slice, and the sub-slice ends sorted; the first
\* three elements of [1,2,4,3] sorted with a > b give [4,2,1,3].
C7_FrameOfSubSlice ==
    /\ \A k \in DOMAIN arr :
          (k <= data.off \/ k > data.off + data.len) => arr[k] = arr0[k]
    /\ Len(arr) = Len(arr0)
    /\ pc = "done" => Sorted(Body(arr))
    /\ (pc = "done" /\ arr0 = <<1, 2, 4, 3>> /\ data.len = 3 /\ less = Gt)
          => arr = <<4, 2, 1, 3>>

C7_Witness ==
    /\ pc = "done"
    /\ data.off = 1
    /\ data.len = 3
    /\ Len(arr) = 5
    /\ Body(arr) # Body(arr0)

\* C8 as stated: with a malformed gap table const_shellsort does not return
\* normally with a sequence that is not sorted.
C8_MalformedTableFailsFast ==
    (engine = "shell" /\ GAPS \in MalformedTables /\ pc = "done")
        => Sorted(Body(arr))

\* C9 as stated: when the partition leaves nothing after the pivot, exactly
\* one sub-problem, the left part, is pushed.
C9_EmptyRightNotPushed ==
    [][(pc = "q_push" /\ left = sub.len - 1 /\ pc' = "q_loop")
          => slices' = Append(slices, [off |-> sub.off, len |-> left])]_vars

\* the index ranges of the views that are outstanding: those on the
\* work-stack and the one being partitioned
Outstanding ==
    slices \o (IF pc \in {"q_scan", "q_push"} THEN <<sub>> ELSE <<>>)
Indices(v) == (v.off + 1)..(v.off + v.len)
Disjoint(views) ==
    \A p, q \in DOMAIN views : p # q => Indices(views[p]) \cap Indices(views[q]) = {}
Covered(views) == UNION {Indices(views[p]) : p \in DOMAIN views}
QuickRunning == engine = "quick" /\ pc \in {"q_loop", "q_scan", "q_push"}

\* C10 as stated: the outstanding views never overlap and together are exactly
\* the original sequence, partitioned by index ranges.
C10_ViewsPartitionSequence ==
    QuickRunning =>
        /\ Disjoint(Outstanding)
        /\ Covered(Outstanding) = Indices(data)

\* C10 as amended: the outstanding views never overlap and all lie inside the
\* original sequence, which they need not cover (a placed pivot and a discarded
\* sub-problem are in no view); the buffer stays a permutation of the input.
C10_ViewsDisjointInside ==
    QuickRunning =>
        /\ Disjoint(Outstanding)
        /\ Covered(Outstanding) \subseteq Indices(data)
        /\ BagOf(arr) = BagOf(arr0)

C10_Witness ==
    /\ QuickRunning
    /\ Len(Outstanding) = 2
    /\ Covered(Outstanding) # Indices(data)
    /\ \A p \in DOMAIN Outstanding : Outstanding[p].len > 0

====
